---- MODULE Spec2Model ----
(***************************************************************************)
(* VeriWeb URL safety analyser: the App component (state url, step,        *)
(* result, error, history; the async handler handleCheck) and the service  *)
(* analyzeUrlWithAI that wraps one call of a remote language model.        *)
(*                                                                         *)
(* URL strings are sequences of one-character strings, so that trim() is   *)
(* computed.  JavaScript values (what JSON.parse returns, what a property  *)
(* access yields) are records tagged by their type in field t.             *)
(***************************************************************************)
EXTENDS Integers, Sequences, FiniteSets, TLC

VARIABLES url, step, result, error, history, runs, nstarted, mounted, lastCheck

vars == <<url, step, result, error, history, runs, nstarted, mounted, lastCheck>>

(* Number of handleCheck runs that may start in one behaviour. *)
MaxRuns == 3

(***************************************************************************)
(* JavaScript values                                                       *)
(***************************************************************************)
Undefined == [t |-> "undefined"]
JNull == [t |-> "null"]
JNum(n) == [t |-> "num", n |-> n]
JStr(s) == [t |-> "str", s |-> s]
JArr(a) == [t |-> "arr", a |-> a]
JObj(f) == [t |-> "obj", f |-> f]

(* ToBoolean: what `x || y`, `!x` and `x && y` test. *)
Truthy(v) ==
  CASE v.t = "undefined" -> FALSE
    [] v.t = "null" -> FALSE
    [] v.t = "num" -> v.n # 0
    [] v.t = "str" -> v.s # ""
    [] OTHER -> TRUE

(* v.k for a value that is neither null nor undefined (those throw). *)
Get(v, k) ==
  IF v.t = "obj" /\ k \in DOMAIN v.f THEN v.f[k] ELSE Undefined

(* A property access on null or undefined throws a TypeError. *)
GetThrows(v) == v.t \in {"null", "undefined"}

(***************************************************************************)
(* URL strings                                                             *)
(***************************************************************************)
IsSpace(c) == c = " "

RECURSIVE TrimStart(_)
TrimStart(s) ==
  IF s # <<>> /\ IsSpace(Head(s)) THEN TrimStart(Tail(s)) ELSE s

RECURSIVE TrimEnd(_)
TrimEnd(s) ==
  IF s # <<>> /\ IsSpace(s[Len(s)]) THEN TrimEnd(SubSeq(s, 1, Len(s) - 1)) ELSE s

Trim(s) == TrimEnd(TrimStart(s))

(* The strings the user types or pastes into the input field. *)
Urls == { <<>>, <<" ">>, <<"a">>, <<"b", " ">> }

(***************************************************************************)
(* The model call and analyzeUrlWithAI                                     *)
(***************************************************************************)
TxtSafe == "{\"score\":92,\"status\":\"SAFE\",\"threats\":[],\"recommendations\":[\"ok\"],\"explanation\":\"fine\"}"
TxtMismatch == "{\"score\":90,\"status\":\"MALICIOUS\",\"threats\":[\"ip host\",\"keyword\"],\"recommendations\":[\"avoid\"],\"explanation\":\"bad\"}"
TxtRange == "{\"score\":150,\"status\":\"SAFE\",\"threats\":[],\"recommendations\":[],\"explanation\":\"fine\"}"
TxtMistyped == "{\"score\":\"high\",\"status\":\"DANGER\",\"threats\":\"none\",\"recommendations\":[],\"explanation\":\"x\"}"
TxtEmptyObj == "{}"
TxtNull == "null"
TxtGarbage == "Sorry, I cannot analyze this"
TxtEmpty == ""

ValSafe ==
  JObj([score |-> JNum(92), status |-> JStr("SAFE"), threats |-> JArr(<<>>),
        recommendations |-> JArr(<<JStr("ok")>>), explanation |-> JStr("fine")])
ValMismatch ==
  JObj([score |-> JNum(90), status |-> JStr("MALICIOUS"),
        threats |-> JArr(<<JStr("ip host"), JStr("keyword")>>),
        recommendations |-> JArr(<<JStr("avoid")>>), explanation |-> JStr("bad")])
ValRange ==
  JObj([score |-> JNum(150), status |-> JStr("SAFE"), threats |-> JArr(<<>>),
        recommendations |-> JArr(<<>>), explanation |-> JStr("fine")])
ValMistyped ==
  JObj([score |-> JStr("high"), status |-> JStr("DANGER"), threats |-> JStr("none"),
        recommendations |-> JArr(<<>>), explanation |-> JStr("x")])
ValEmptyObj == JObj(<<>>)

(* JSON.parse on the texts above: the parsed value, or a SyntaxError. *)
JSONParse(s) ==
  CASE s = TxtSafe -> [ok |-> TRUE, v |-> ValSafe]
    [] s = TxtMismatch -> [ok |-> TRUE, v |-> ValMismatch]
    [] s = TxtRange -> [ok |-> TRUE, v |-> ValRange]
    [] s = TxtMistyped -> [ok |-> TRUE, v |-> ValMistyped]
    [] s = TxtEmptyObj -> [ok |-> TRUE, v |-> ValEmptyObj]
    [] s = TxtNull -> [ok |-> TRUE, v |-> JNull]
    [] OTHER -> [ok |-> FALSE, v |-> Undefined]

(* The result of the catch block of analyzeUrlWithAI. *)
Fallback ==
  JObj([score |-> JNum(50), status |-> JStr("SUSPICIOUS"),
        threats |-> JArr(<<JStr("Analysis failed to complete")>>),
        recommendations |-> JArr(<<JStr("Proceed with extreme caution"),
                                   JStr("Do not enter sensitive information")>>),
        explanation |-> JStr("The automated analysis encountered an error while evaluating this link.")])

(* How ai.models.generateContent settles: it rejects, or it fulfils with a *)
(* response whose text is a string or undefined.                           *)
Responses ==
  { [kind |-> "reject", text |-> Undefined], [kind |-> "fulfil", text |-> Undefined] }
  \cup { [kind |-> "fulfil", text |-> JStr(s)] :
           s \in {TxtSafe, TxtMismatch, TxtRange, TxtMistyped, TxtNull, TxtGarbage, TxtEmpty} }

Pending == [st |-> "pending", v |-> Undefined]
Fulfilled(v) == [st |-> "fulfilled", v |-> v]
Rejected == [st |-> "rejected", v |-> Undefined]

(* try { return JSON.parse(response.text || "{}") } catch { return fallback } *)
ParseResponse(text) ==
  LET src == IF Truthy(text) THEN text.s ELSE "{}"
      p == JSONParse(src)
  IN IF p.ok THEN p.v ELSE Fallback

(* analyzeUrlWithAI without its try/catch: a SyntaxError of JSON.parse      *)
(* rejects the promise.                                                     *)
AnalyzeUrlWithAINoCatch(resp) ==
  IF resp.kind = "reject" THEN Rejected
  ELSE LET p == JSONParse(IF Truthy(resp.text) THEN resp.text.s ELSE "{}")
       IN IF p.ok THEN Fulfilled(p.v) ELSE Rejected

(* The promise analyzeUrlWithAI returns, once the model call has settled    *)
(* with resp: the await of generateContent is outside the try block.        *)
AnalyzeUrlWithAI(resp) ==
  IF resp.kind = "reject" THEN Rejected ELSE Fulfilled(ParseResponse(resp.text))

(***************************************************************************)
(* Rendering                                                               *)
(***************************************************************************)
(* ToNumber, as the relational operators apply it; the strings of this      *)
(* model other than "" are not numeric, arrays and objects are taken as NaN.*)
ToNumber(v) ==
  CASE v.t = "num" -> [nan |-> FALSE, n |-> v.n]
    [] v.t = "null" -> [nan |-> FALSE, n |-> 0]
    [] v.t = "str" /\ v.s = "" -> [nan |-> FALSE, n |-> 0]
    [] OTHER -> [nan |-> TRUE, n |-> 0]

(* score >= k in JavaScript: false when score converts to NaN. *)
GreaterEq(v, k) == LET x == ToNumber(v) IN ~x.nan /\ x.n >= k

getStatusColor(status) ==
  CASE status = JStr("SAFE") -> "emerald"
    [] status = JStr("SUSPICIOUS") -> "amber"
    [] status = JStr("MALICIOUS") -> "red"
    [] OTHER -> "slate"

getScoreColor(score) ==
  IF GreaterEq(score, 80) THEN "emerald"
  ELSE IF GreaterEq(score, 50) THEN "amber"
  ELSE "red"

(* React renders strings, numbers, null, undefined and arrays of these as   *)
(* children and throws on a plain object.                                   *)
RECURSIVE ValidChild(_)
ValidChild(v) ==
  CASE v.t = "obj" -> FALSE
    [] v.t = "arr" -> \A i \in 1..Len(v.a) : ValidChild(v.a[i])
    [] OTHER -> TRUE

(* list.map(item => <li>{item}</li>): throws unless list is an array of     *)
(* renderable items.                                                        *)
MapThrows(list) ==
  \/ list.t # "arr"
  \/ \E i \in 1..Len(list.a) : ~ValidChild(list.a[i])

(* The Detected Threats list of a truthy result: whether rendering it       *)
(* throws, the <li> items it shows and whether the "No immediate threats   *)
(* detected" item is shown.                                                 *)
ThreatsPanel(res) ==
  LET th == Get(res, "threats") IN
  IF MapThrows(th) THEN [throws |-> TRUE, items |-> <<>>, noThreats |-> FALSE]
  ELSE [throws |-> FALSE, items |-> th.a, noThreats |-> Len(th.a) = 0]

(* The Recent Scans list. *)
HistoryThrows(hist) ==
  \E i \in 1..Len(hist) : ~ValidChild(hist[i].status) \/ ~ValidChild(hist[i].score)

(* The results section is rendered for a truthy result in step COMPLETED.   *)
ResultsShown(res, st) == Truthy(res) /\ st = "COMPLETED"

(* Whether rendering App throws for this state. *)
RenderThrows(res, st, hist) ==
  /\ ResultsShown(res, st)
  /\ \/ ~ValidChild(Get(res, "status"))
     \/ ~ValidChild(Get(res, "score"))
     \/ ~ValidChild(Get(res, "explanation"))
     \/ ThreatsPanel(res).throws
     \/ MapThrows(Get(res, "recommendations"))
     \/ HistoryThrows(hist)

(***************************************************************************)
(* App state and handleCheck                                               *)
(***************************************************************************)
InProgress == {"PROCESSING", "EXTRACTION", "PATTERN_ANALYSIS", "PREDICTION"}

FailMessage == JStr("Failed to analyze URL. Please check your connection and try again.")

(* history.slice(0, 5) *)
HistoryCap == 5

NoResp == [kind |-> "pending", text |-> Undefined]
NoCheck == <<>>

(* The guard without the trim() test. *)
BlankNoTrim(u) == u = <<>>

(* if (!url || !url.trim()) return; *)
Blank(u) == u = <<>> \/ Trim(u) = <<>>

(* The button disabled only for an empty url, whatever the step. *)
SubmitEnabledAnyStep == url # <<>>

(* The <input> is disabled in the in-progress steps. *)
InputEnabled == step \in {"IDLE", "COMPLETED"}

(* The submit button is disabled for an empty url and in the in-progress    *)
(* steps; a disabled default button also blocks submission by Enter.        *)
SubmitEnabled == url # <<>> /\ step \in {"IDLE", "COMPLETED"}

(* A handleCheck run is executing its first synchronous segment: nothing    *)
(* else runs until it reaches its first await.                              *)
Busy == \E r \in runs : r.pc = "call"

Init ==
  /\ url = <<>>
  /\ step = "IDLE"
  /\ result = JNull
  /\ error = JNull
  /\ history = <<>>
  /\ runs = {}
  /\ nstarted = 0
  /\ mounted = TRUE
  /\ lastCheck = NoCheck

(* handleCheck called with u as the url of its closure: lines 42-48.        *)
HandleCheck(u) ==
  /\ lastCheck' = <<u>>
  /\ IF Blank(u)
     THEN UNCHANGED <<step, result, error, history, runs, nstarted, mounted>>
     ELSE /\ nstarted < MaxRuns
          /\ error' = JNull
          /\ result' = JNull
          /\ step' = "PROCESSING"
          /\ nstarted' = nstarted + 1
          /\ runs' = runs \cup {[id |-> nstarted + 1, pc |-> "call", url |-> u,
                                 resp |-> NoResp, promise |-> Pending,
                                 analysis |-> Undefined]}
          /\ UNCHANGED <<history, mounted>>

(* onChange of the input. *)
SetUrl(v) ==
  /\ mounted /\ ~Busy
  /\ InputEnabled
  /\ url' = v
  /\ UNCHANGED <<step, result, error, history, runs, nstarted, mounted, lastCheck>>

(* onSubmit of the form. *)
Submit ==
  /\ mounted /\ ~Busy
  /\ SubmitEnabled
  /\ HandleCheck(url)
  /\ url' = url

(* onClick of the re-scan button of history entry i:                        *)
(* setUrl(item.url); handleCheck() with the url of the rendered closure.    *)
Rescan(i) ==
  /\ mounted /\ ~Busy
  /\ ResultsShown(result, step)
  /\ i \in 1..Len(history)
  /\ url' = history[i].url
  /\ HandleCheck(url)

Replace(r, q) == (runs \ {r}) \cup {q}

(* Lines 52-56: the model call is issued, step EXTRACTION, first timer. *)
StartAnalysis(r) ==
  /\ mounted
  /\ r.pc = "call"
  /\ step' = "EXTRACTION"
  /\ runs' = Replace(r, [r EXCEPT !.pc = "timer1"])
  /\ UNCHANGED <<url, result, error, history, nstarted, mounted, lastCheck>>

(* The first timer's continuation going straight to PREDICTION. *)
Timer1SkipsStage(r) ==
  /\ mounted /\ ~Busy
  /\ r.pc = "timer1"
  /\ step' = "PREDICTION"
  /\ runs' = Replace(r, [r EXCEPT !.pc = "await"])
  /\ UNCHANGED <<url, result, error, history, nstarted, mounted, lastCheck>>

(* Line 57, after the first 100 ms timer. *)
Timer1(r) ==
  /\ mounted /\ ~Busy
  /\ r.pc = "timer1"
  /\ step' = "PATTERN_ANALYSIS"
  /\ runs' = Replace(r, [r EXCEPT !.pc = "await"])
  /\ UNCHANGED <<url, result, error, history, nstarted, mounted, lastCheck>>

(* generateContent settles with resp and analyzeUrlWithAI finishes. *)
ModelSettles(r, resp) ==
  /\ mounted /\ ~Busy
  /\ r.pc \in {"timer1", "await"}
  /\ r.resp = NoResp
  /\ runs' = Replace(r, [r EXCEPT !.resp = resp, !.promise = AnalyzeUrlWithAI(resp)])
  /\ UNCHANGED <<url, step, result, error, history, nstarted, mounted, lastCheck>>

(* Lines 59-62: the awaited analysis is there. *)
AwaitFulfilled(r) ==
  /\ mounted /\ ~Busy
  /\ r.pc = "await"
  /\ r.promise.st = "fulfilled"
  /\ step' = "PREDICTION"
  /\ runs' = Replace(r, [r EXCEPT !.pc = "timer2", !.analysis = r.promise.v])
  /\ UNCHANGED <<url, result, error, history, nstarted, mounted, lastCheck>>

(* The catch branch without setStep('IDLE'). *)
AwaitRejectedKeepsStep(r) ==
  /\ mounted /\ ~Busy
  /\ r.pc = "await"
  /\ r.promise.st = "rejected"
  /\ error' = FailMessage
  /\ runs' = runs \ {r}
  /\ UNCHANGED <<url, step, result, history, nstarted, mounted, lastCheck>>

(* Lines 68-72: the awaited analysis rejected. *)
AwaitRejected(r) ==
  /\ mounted /\ ~Busy
  /\ r.pc = "await"
  /\ r.promise.st = "rejected"
  /\ error' = FailMessage
  /\ step' = "IDLE"
  /\ runs' = runs \ {r}
  /\ UNCHANGED <<url, result, history, nstarted, mounted, lastCheck>>

Take(s, n) == IF Len(s) <= n THEN s ELSE SubSeq(s, 1, n)

(* Lines 64-67, after the second timer, and the render that follows: the    *)
(* setHistory updater reads analysis.status when React renders, so a null   *)
(* analysis throws there; a throw while rendering unmounts the App.         *)
Timer2(r) ==
  /\ mounted /\ ~Busy
  /\ r.pc = "timer2"
  /\ result' = r.analysis
  /\ step' = "COMPLETED"
  /\ history' = IF GetThrows(r.analysis) THEN history
                ELSE Take(<<[url |-> r.url, status |-> Get(r.analysis, "status"),
                             score |-> Get(r.analysis, "score")]>> \o history,
                          HistoryCap)
  /\ mounted' = (~GetThrows(r.analysis) /\ ~RenderThrows(result', step', history'))
  /\ runs' = runs \ {r}
  /\ UNCHANGED <<url, error, nstarted, lastCheck>>

Next ==
  \/ \E v \in Urls : SetUrl(v)
  \/ Submit
  \/ \E i \in 1..HistoryCap : Rescan(i)
  \/ \E r \in runs : StartAnalysis(r)
  \/ \E r \in runs : Timer1(r)
  \/ \E r \in runs, resp \in Responses : ModelSettles(r, resp)
  \/ \E r \in runs : AwaitFulfilled(r)
  \/ \E r \in runs : AwaitRejected(r)
  \/ \E r \in runs : Timer2(r)

Spec == Init /\ [][Next]_vars

(* Timers fire and continuations run; nothing makes the model call settle. *)
Progress ==
  \/ \E r \in runs : StartAnalysis(r)
  \/ \E r \in runs : Timer1(r)
  \/ \E r \in runs : AwaitFulfilled(r)
  \/ \E r \in runs : AwaitRejected(r)
  \/ \E r \in runs : Timer2(r)

FairSpec == Spec /\ WF_vars(Progress)

(***************************************************************************)
(* Properties                                                              *)
(***************************************************************************)
Delivered == { r.promise.v : r \in { q \in runs : q.promise.st = "fulfilled" } }

ScoreInRange(v) == v.t = "num" /\ v.n >= 0 /\ v.n <= 100

(* C1: every result analyzeUrlWithAI returns, and every result and history  *)
(* entry handleCheck stores, has a numeric score between 0 and 100.         *)
C1_ScoreInRange ==
  /\ \A v \in Delivered : ScoreInRange(Get(v, "score"))
  /\ result # JNull => ScoreInRange(Get(result, "score"))
  /\ \A i \in 1..Len(history) : ScoreInRange(history[i].score)

(* The classification bands of the score. *)
BandOf(n) == IF n >= 80 THEN "SAFE" ELSE IF n >= 50 THEN "SUSPICIOUS" ELSE "MALICIOUS"

StatusFromScore(status, score) ==
  /\ score.t = "num"
  /\ status = JStr(BandOf(score.n))
  /\ getStatusColor(status) = getScoreColor(score)

(* C2: in every stored result and history entry the status is the band of   *)
(* the score (>= 80 SAFE, 50..79 SUSPICIOUS, < 50 MALICIOUS), so the status *)
(* badge colour and the score colour agree.                                 *)
C2_StatusIsBandOfScore ==
  /\ result # JNull => StatusFromScore(Get(result, "status"), Get(result, "score"))
  /\ \A i \in 1..Len(history) : StatusFromScore(history[i].status, history[i].score)

IsStringArray(v) == v.t = "arr" /\ \A i \in 1..Len(v.a) : v.a[i].t = "str"

HasShape(v) ==
  /\ v.t = "obj"
  /\ Get(v, "score").t = "num"
  /\ Get(v, "status") \in {JStr("SAFE"), JStr("SUSPICIOUS"), JStr("MALICIOUS")}
  /\ IsStringArray(Get(v, "threats"))
  /\ IsStringArray(Get(v, "recommendations"))
  /\ Get(v, "explanation").t = "str"

(* C3: a value is returned by analyzeUrlWithAI and stored in result only    *)
(* if it has the full AnalysisResult shape; a response without that shape   *)
(* gives the fallback result.                                               *)
C3_ResultHasShape ==
  /\ \A v \in Delivered : HasShape(v)
  /\ result # JNull => HasShape(result)

(* C4: whenever the results section is shown, the threats list renders      *)
(* without throwing, one item per threat, and the "no threats" item is      *)
(* shown exactly for an empty threats array.                                *)
C4_ThreatsPanelRenders ==
  ResultsShown(result, step) =>
    /\ mounted
    /\ ~ThreatsPanel(result).throws
    /\ Len(ThreatsPanel(result).items) = Len(Get(result, "threats").a)
    /\ ThreatsPanel(result).noThreats <=> (Get(result, "threats").a = <<>>)

(* C5 as claimed: analyzeUrlWithAI never rejects and handleCheck never      *)
(* shows the failure message.                                               *)
C5_NeverFails ==
  /\ error = JNull
  /\ \A r \in runs : r.promise.st # "rejected"

(* C5 amended: analyzeUrlWithAI rejects exactly when the model call         *)
(* rejects and returns a value for every response the call fulfils with;    *)
(* handleCheck sets the failure message, going back to IDLE, only for a     *)
(* run whose model call rejected.                                           *)
C5_FailsOnlyOnReject ==
  [][ /\ \A r \in runs' :
           /\ r.resp.kind = "reject" <=> r.promise.st = "rejected"
           /\ r.resp.kind = "fulfil" <=> r.promise.st = "fulfilled"
      /\ (error' # JNull /\ error = JNull) =>
           /\ \E r \in runs : r.pc = "await" /\ r.resp.kind = "reject" /\ r \notin runs'
           /\ error' = FailMessage
           /\ step' = "IDLE" ]_vars

(* A run took the catch branch of handleCheck. *)
C5_Witness == error = FailMessage /\ step = "IDLE" /\ nstarted > 0

(* C6 as claimed: a handleCheck call with an empty or all-whitespace url    *)
(* starts an analysis of it like any other input.                           *)
C6_BlankIsAnalysed ==
  [][ (lastCheck' # lastCheck /\ lastCheck' # NoCheck /\ Trim(lastCheck'[1]) = <<>>) =>
        /\ step' = "PROCESSING"
        /\ \E r \in runs' : r.url = lastCheck'[1] ]_vars

(* C6 amended: a handleCheck call with an empty or all-whitespace url       *)
(* returns at once: no analysis starts and step, result, error and history  *)
(* stay as they were.                                                       *)
C6_BlankIsIgnored ==
  [][ (lastCheck' # lastCheck /\ lastCheck' # NoCheck /\ Trim(lastCheck'[1]) = <<>>) =>
        UNCHANGED <<step, result, error, history, runs, nstarted>> ]_vars

(* handleCheck was last called with a blank url, after an earlier analysis. *)
C6_Witness ==
  /\ lastCheck # NoCheck
  /\ Trim(lastCheck[1]) = <<>>
  /\ nstarted > 0

(* C7: two analyses of the same URL deliver the same result, so two history *)
(* entries with the same url carry the same status and score.               *)
C7_SameUrlSameResult ==
  \A i, j \in 1..Len(history) :
    history[i].url = history[j].url =>
      /\ history[i].status = history[j].status
      /\ history[i].score = history[j].score

StepOrder ==
  { <<"PROCESSING", "EXTRACTION">>, <<"EXTRACTION", "PATTERN_ANALYSIS">>,
    <<"PATTERN_ANALYSIS", "PREDICTION">>, <<"PREDICTION", "COMPLETED">> }

C9_OneAnalysisInFlight ==
  [][ /\ nstarted' # nstarted => (step \in {"IDLE", "COMPLETED"} /\ runs = {})
      /\ Cardinality(runs') <= 1
      /\ \A r \in runs' : r.id = nstarted' /\ step' \in InProgress
      /\ step' \in InProgress => runs' # {} ]_vars

(* An analysis is in flight after an earlier one has completed. *)
C9_Witness ==
  /\ runs # {}
  /\ nstarted >= 2
  /\ Len(history) >= 1
  /\ step = "PATTERN_ANALYSIS"

(* C10: every run that sets step to PROCESSING eventually sets it to        *)
(* COMPLETED or IDLE, whether or not the model call settles.                *)
C10_RunTerminates ==
  (step = "PROCESSING") ~> (step \in {"COMPLETED", "IDLE"})

(* C11: a click on the re-scan button of a history entry, with another url  *)
(* in the input field, starts an analysis whose url (the string passed to   *)
(* analyzeUrlWithAI and later recorded in history) is that entry's url.     *)
(* A step that changes url and starts a run is such a click, and url' is    *)
(* then item.url.                                                           *)
C11_RescanAnalysesItemUrl ==
  [][ (url' # url /\ nstarted' = nstarted + 1) =>
        \E r \in runs' : r.id = nstarted' /\ r.url = url' ]_vars

(* C12: whenever the results section is shown, the url in its header (the   *)
(* url state) is the url that was analysed for the result, which is the     *)
(* url of the newest history entry.                                         *)
C12_HeaderShowsAnalysedUrl ==
  (mounted /\ ResultsShown(result, step)) =>
    /\ history # <<>>
    /\ url = history[1].url

(* C13: a run whose analysis call rejected ends (leaves the runs in        *)
(* flight) with step IDLE, the failure message in error, result null and    *)
(* history unchanged, and it ends in no other way; step returns from an     *)
(* in-progress step to IDLE only so; error and result are never both        *)
(* non-null, and both are null in the in-progress steps.                    *)
C13_ErrorResultExclusive ==
  [][ /\ \A r \in runs :
           (r.promise.st = "rejected" /\ \A q \in runs' : q.id # r.id) =>
             /\ r.pc = "await"
             /\ step' = "IDLE"
             /\ error' = FailMessage
             /\ result' = JNull
             /\ history' = history
      /\ (step \in InProgress /\ step' = "IDLE") =>
           \E r \in runs : r.promise.st = "rejected" /\ \A q \in runs' : q.id # r.id
      /\ ~(error' # JNull /\ result' # JNull)
      /\ step' \in InProgress => (error' = JNull /\ result' = JNull) ]_vars

(* A run has ended in the catch branch after an earlier run delivered a     *)
(* result: the failure message is shown, the result is cleared and the      *)
(* earlier history entry is still there.                                    *)
C13_Witness ==
  /\ error = FailMessage
  /\ step = "IDLE"
  /\ result = JNull
  /\ runs = {}
  /\ Len(history) = 1
  /\ nstarted = 2

(* C14: history holds at most 5 entries, newest first; a run reaching       *)
(* COMPLETED prepends exactly one entry with its url, status and score and  *)
(* the oldest entry beyond 5 is dropped; every other step leaves history    *)
(* unchanged.                                                               *)
C14_HistoryPrependsOnComplete ==
  [][ /\ Len(history') <= HistoryCap
      /\ IF step = "PREDICTION" /\ step' = "COMPLETED"
         THEN \E r \in runs :
                /\ r.pc = "timer2" /\ r \notin runs'
                /\ Len(history') = (IF Len(history) < HistoryCap THEN Len(history) + 1
                                    ELSE HistoryCap)
                /\ history'[1].url = r.url
                /\ history'[1].status = Get(r.analysis, "status")
                /\ history'[1].score = Get(r.analysis, "score")
                /\ \A k \in 2..Len(history') : history'[k] = history[k - 1]
         ELSE history' = history ]_vars

====
